---- MODULE Spec2Model ----
(***************************************************************************)
(* iTethr assistant: the Conversation Store (bot.py ConversationMemory),   *)
(* the orchestration turn (bot.py iTethrBot.get_response_stream fed by     *)
(* GroqClient.generate_response_stream and called by main.py               *)
(* chat_endpoint), the Knowledge Index build                               *)
(* (bot.py iTethrBot._load_all_documents), and the functions called on     *)
(* their own: _create_chunks, _search_knowledge, generate_response_stream  *)
(* (bot.py) and execute_tool (tools.py).                                   *)
(*                                                                         *)
(* Text is a sequence of characters, a message a record [role, content],   *)
(* a conversation a record [id, title, history], and user_conversations a  *)
(* function whose DOMAIN is the key set of the defaultdict.                *)
(***************************************************************************)
EXTENDS Integers, Sequences, FiniteSets, TLC

VARIABLES
    user_conversations, \* ConversationMemory.user_conversations (defaultdict(list))
    file,               \* ./data/memory.pkl
    nextId,             \* the uuid4 source: ids issued so far
    log,                \* history: the calls of add_message_to_conversation
    pc,                 \* per thread: position in get_response_stream
    after,              \* per thread: where save_memory returns to
    buf,                \* per thread: the pickled bytes held by the open file object
    turn,               \* per thread: the locals of the running get_response_stream
    out,                \* per thread: the events the generator has yielded
    gw,                 \* per thread: the gateway generator of the current round
    obs,                \* per thread: history of the turn (gateway events, calls made)
    turnsLeft,          \* per thread: chat requests still to come
    documents,          \* iTethrBot.documents
    embeddings,         \* iTethrBot.embeddings
    ipc,                \* position in _load_all_documents
    files,              \* the ./documents listing still to be read
    called              \* a function called on its own: its arguments and what it returned

vars == << user_conversations, file, nextId, log, pc, after, buf, turn, out,
           gw, obs, turnsLeft, documents, embeddings, ipc, files, called >>

storeVars == << user_conversations, file, nextId, log >>
threadVars == << pc, after, buf, turn, out, gw, obs, turnsLeft >>
indexVars == << documents, embeddings, ipc, files >>

----------------------------------------------------------------------------
(* Bounds *)

MaxConvos == 2      \* conversations created in one run
MaxAppends == 3     \* messages appended by direct store calls
MaxTurns == 1       \* chat turns one after the other
MaxLines == 2       \* wire lines of one gateway response
MaxFiles == 3       \* files in ./documents
MaxTopK == 3        \* the top_k of a direct _search_knowledge call
MaxChars == 5       \* characters of a text given to _create_chunks
MaxWindow == 3      \* the chunk_size given to _create_chunks

Usernames == {"u1", "u2"}
Threads == {1, 2}

----------------------------------------------------------------------------
(* Values *)

NoConvoId == -1     \* convo_id: str = None
UnknownIds == {0}   \* ids the store never issued
TitleLen == 45      \* first_message[:45]

Min(a, b) == IF a < b THEN a ELSE b

Max(a, b) == IF a > b THEN a ELSE b

Take(s, n) == SubSeq(s, 1, Min(n, Len(s)))

Msg(role, content) == [role |-> role, content |-> content]

Title(first_message) == Take(first_message, TitleLen) \o <<".", ".", ".">>

Texts == {<<"h">>, <<"y", "o">>}

FirstMessages == {<<"h", "i">>}

StoreMsgs == {Msg("user", <<"h">>), Msg("assistant", <<"a">>)}

IssuedIds == 1..nextId

\* the messages passed to add_message_to_conversation(username, convo_id, .), in call order
LogOf(username, convo_id) ==
    LET calls == SelectSeq(log, LAMBDA c : c[1] = username /\ c[2] = convo_id)
    IN  [i \in 1..Len(calls) |-> calls[i][3]]

Logged(username, convo_id, message) == Append(log, <<username, convo_id, message>>)

----------------------------------------------------------------------------
(* ConversationMemory: the map operations *)

\* self.user_conversations[username] on a defaultdict(list): a missing key is inserted
Touch(uc, username) ==
    IF username \in DOMAIN uc THEN uc
    ELSE [u \in DOMAIN uc \cup {username} |-> IF u = username THEN <<>> ELSE uc[u]]

\* the index of the first conversation of `convos` with this id, 0 when there is none
FindConvo(convos, convo_id) ==
    IF \E i \in 1..Len(convos) : convos[i].id = convo_id
    THEN CHOOSE i \in 1..Len(convos) :
            /\ convos[i].id = convo_id
            /\ \A j \in 1..(i - 1) : convos[j].id # convo_id
    ELSE 0

StartNewMap(uc, username, convo_id, first_message) ==
    LET new_convo == [id |-> convo_id, title |-> Title(first_message), history |-> <<>>]
        m == Touch(uc, username)
    IN  [m EXCEPT ![username] = <<new_convo>> \o @]

AddMessageMutantPrepend(uc, username, convo_id, message) ==
    LET m == Touch(uc, username)
        i == FindConvo(m[username], convo_id)
    IN  IF i = 0 THEN m
        ELSE [m EXCEPT ![username][i].history = <<message>> \o @]

\* lines 96-100 search the list of `username` only
AddMessageMutantAnyOwner(uc, username, convo_id, message) ==
    LET m == Touch(uc, username)
    IN  [u \in DOMAIN m |->
            [i \in 1..Len(m[u]) |->
                IF m[u][i].id = convo_id
                THEN [m[u][i] EXCEPT !.history = Append(@, message)]
                ELSE m[u][i]]]

AddMessageMap(uc, username, convo_id, message) ==
    LET m == Touch(uc, username)
        i == FindConvo(m[username], convo_id)
    IN  IF i = 0 THEN m
        ELSE [m EXCEPT ![username][i].history = Append(@, message)]

HistoryOf(uc, username, convo_id) ==
    LET m == Touch(uc, username)
        i == FindConvo(m[username], convo_id)
    IN  IF i = 0 THEN <<>> ELSE m[username][i].history

AllConversations(uc, username) ==
    LET convos == Touch(uc, username)[username]
    IN  [i \in 1..Len(convos) |-> [id |-> convos[i].id, title |-> convos[i].title]]

----------------------------------------------------------------------------
(* ConversationMemory: the durable file.  The pickle is the set of        *)
(* (username, conversation list) items of the map.                        *)

EmptyMap == [u \in {} |-> <<>>]

NoFile == [state |-> "absent", data |-> {}]

PickleMutantDropEmpty(uc) == {<<u, uc[u]>> : u \in {v \in DOMAIN uc : uc[v] # <<>>}}

Pickle(uc) == {<<u, uc[u]>> : u \in DOMAIN uc}

Unpickle(data) ==
    [u \in {p[1] : p \in data} |-> (CHOOSE p \in data : p[1] = u)[2]]

\* save_memory as one step: open 'wb', pickle.dump, close
SavedFile(uc) == [state |-> "complete", data |-> Pickle(uc)]

\* _load_memory: a missing file, or one pickle.load fails on, leaves the empty map
LoadMemory(f) == IF f.state = "complete" THEN Unpickle(f.data) ELSE EmptyMap

----------------------------------------------------------------------------
(* ConversationMemory: the operations as the server calls them, one call   *)
(* at a time (main.py get_user_conversations, get_conversation_history,   *)
(* and the calls get_response_stream makes).                               *)

start_new_conversation(username, first_message) ==
    /\ nextId < MaxConvos
    /\ nextId' = nextId + 1
    /\ user_conversations' = StartNewMap(user_conversations, username, nextId + 1, first_message)
    /\ file' = SavedFile(user_conversations')
    /\ UNCHANGED << log, threadVars, indexVars, called >>

add_message_to_conversation(username, convo_id, message) ==
    /\ Len(log) < MaxAppends
    /\ user_conversations' = AddMessageMap(user_conversations, username, convo_id, message)
    /\ file' = SavedFile(user_conversations')
    /\ log' = Logged(username, convo_id, message)
    /\ UNCHANGED << nextId, threadVars, indexVars, called >>

get_conversation_history(username, convo_id) ==
    /\ user_conversations' = Touch(user_conversations, username)
    /\ UNCHANGED << file, nextId, log, threadVars, indexVars, called >>

get_all_conversations_for_user(username) ==
    /\ user_conversations' = Touch(user_conversations, username)
    /\ UNCHANGED << file, nextId, log, threadVars, indexVars, called >>

\* ConversationMemory(): a new store object loads the durable file
ConversationMemory ==
    /\ user_conversations # LoadMemory(file)
    /\ user_conversations' = LoadMemory(file)
    /\ UNCHANGED << file, nextId, log, threadVars, indexVars, called >>

----------------------------------------------------------------------------
(* iTethrBot._create_chunks and the build of the Knowledge Index.  A file's  *)
(* content is its whitespace-split words, a chunk the words of its window.   *)

chunk_size == 400
overlap == 50

CreateChunksMutantNoOverlap(words, W, O) ==
    IF Len(words) = 0 THEN <<>>
    ELSE LET n == (Len(words) + W - 1) \div W
         IN  [k \in 1..n |-> SubSeq(words, (k - 1) * W + 1, Min(k * W, Len(words)))]

CreateChunksMutantStopsEarly(words, W, O) ==
    IF Len(words) = 0 THEN <<>>
    ELSE LET step == W - O
             n == (Max(Len(words) - O, 1) + step - 1) \div step
         IN  [k \in 1..n |-> SubSeq(words, (k - 1) * step + 1,
                                     Min((k - 1) * step + W, Len(words)))]

\* [' '.join(words[i:i + chunk_size]) for i in range(0, len(words), chunk_size - overlap)]
CreateChunks(words, W, O) ==
    IF Len(words) = 0 THEN <<>>
    ELSE LET step == W - O
             n == (Len(words) + step - 1) \div step
         IN  [k \in 1..n |-> SubSeq(words, (k - 1) * step + 1,
                                     Min((k - 1) * step + W, Len(words)))]

Whitespace == {" ", "\t"}

Chars == {"a", "b"} \cup Whitespace

\* str.split(): the maximal runs of characters that are not whitespace
RECURSIVE SplitFrom(_, _)
SplitFrom(rest, word) ==
    LET ended == IF Len(word) = 0 THEN <<>> ELSE <<word>>
    IN  IF Len(rest) = 0 THEN ended
        ELSE IF Head(rest) \in Whitespace THEN ended \o SplitFrom(Tail(rest), <<>>)
        ELSE SplitFrom(Tail(rest), Append(word, Head(rest)))

Split(content) == SplitFrom(content, <<>>)

\* ' '.join(words)
RECURSIVE Join(_)
Join(words) ==
    IF Len(words) = 0 THEN <<>>
    ELSE IF Len(words) = 1 THEN words[1]
    ELSE words[1] \o <<" ">> \o Join(Tail(words))

\* lines 165-169 on a text
create_chunks(content, W, O) ==
    IF Len(content) = 0 THEN <<>>
    ELSE LET words == Split(content)
             windows == CreateChunks(words, W, O)
         IN  IF Len(words) = 0 THEN <<>>
             ELSE [k \in 1..Len(windows) |-> Join(windows[k])]

\* self._create_chunks(content, chunk_size, overlap) returns
call_create_chunks ==
    /\ called.op = "_create_chunks"
    /\ ~called.returned
    /\ called' = [called EXCEPT
                     !.returned = TRUE,
                     !.ret = create_chunks(called.args.content, called.args.chunk_size,
                                           called.args.overlap)]
    /\ UNCHANGED << storeVars, threadVars, indexVars >>

\* embeddings_model.encode: one vector per text, in order
Embed(chunk) == [vector_of |-> chunk]

EncodeAll(docs) == [i \in 1..Len(docs) |-> Embed(docs[i])]

DocFile(txt, readable, words) == [txt |-> txt, readable |-> readable, words |-> words]

DocFiles ==
    {DocFile(FALSE, TRUE, <<"n">>), DocFile(TRUE, FALSE, <<>>)}
    \cup {DocFile(TRUE, TRUE, w) : w \in {<<>>, <<"w">>, <<"x", "y">>, <<"z">>}}

RECURSIVE SeqsUpTo(_, _)
SeqsUpTo(S, n) ==
    IF n = 0 THEN {<<>>}
    ELSE LET shorter == SeqsUpTo(S, n - 1)
         IN  shorter \cup {Append(q, x) : q \in shorter, x \in S}

\* lines 141-144: ./documents does not exist
missing_documents_dir ==
    /\ ipc = "start"
    /\ files = <<>>
    /\ ipc' = "built"
    /\ UNCHANGED << storeVars, threadVars, called, documents, embeddings, files >>

\* line 146: os.listdir
list_documents ==
    /\ ipc = "start"
    /\ ipc' = "files"
    /\ UNCHANGED << storeVars, threadVars, called, documents, embeddings, files >>

\* line 147: not a .txt file
skip_file ==
    /\ ipc = "files"
    /\ files # <<>>
    /\ ~Head(files).txt
    /\ files' = Tail(files)
    /\ UNCHANGED << storeVars, threadVars, called, documents, embeddings, ipc >>

\* lines 148-153
load_document ==
    /\ ipc = "files"
    /\ files # <<>>
    /\ Head(files).txt
    /\ Head(files).readable
    /\ documents' = documents \o CreateChunks(Head(files).words, chunk_size, overlap)
    /\ files' = Tail(files)
    /\ UNCHANGED << storeVars, threadVars, called, embeddings, ipc >>

\* lines 154-155: the read raises; logged, the loop goes on
load_document_fails ==
    /\ ipc = "files"
    /\ files # <<>>
    /\ Head(files).txt
    /\ ~Head(files).readable
    /\ files' = Tail(files)
    /\ UNCHANGED << storeVars, threadVars, called, documents, embeddings, ipc >>

\* line 157: no chunk was produced
no_documents ==
    /\ ipc = "files"
    /\ files = <<>>
    /\ documents = <<>>
    /\ ipc' = "built"
    /\ UNCHANGED << storeVars, threadVars, called, documents, embeddings, files >>

\* lines 158-160
encode_documents ==
    /\ ipc = "files"
    /\ files = <<>>
    /\ documents # <<>>
    /\ embeddings' = EncodeAll(documents)
    /\ ipc' = "built"
    /\ UNCHANGED << storeVars, threadVars, called, documents, files >>

\* lines 161-162: encode raises; logged, self.embeddings stays as it was
encode_fails ==
    /\ ipc = "files"
    /\ files = <<>>
    /\ documents # <<>>
    /\ ipc' = "built"
    /\ UNCHANGED << storeVars, threadVars, called, documents, embeddings, files >>

----------------------------------------------------------------------------
(* iTethrBot._search_knowledge.  A similarity is counted in tenths; the      *)
(* similarities of a question to the stored embeddings are what the          *)
(* embedding model and cosine_similarity give.                               *)

top_k == 3          \* top_k=3
Threshold == 3      \* similarities[idx] > 0.3

Scores == {0, 3, 5, 9}

Reverse(s) == [i \in 1..Len(s) |-> s[Len(s) + 1 - i]]

Range(s) == {s[i] : i \in 1..Len(s)}

\* line 173
IndexEmpty(docs, embs) == Len(docs) = 0 \/ Len(embs) = 0

\* cosine_similarity(question_embedding, self.embeddings)[0]: one score per stored
\* embedding, equal embeddings having equal scores
SimilaritiesOf(embs) ==
    {s \in [1..Len(embs) -> Scores] :
        \A i, j \in 1..Len(embs) : embs[i] = embs[j] => s[i] = s[j]}

\* np.argsort(similarities): an order of the indices in which the scores ascend; the
\* default kind is not a stable sort, so equal scores may come in either order
ArgSorts(similarities) ==
    LET n == Len(similarities)
    IN  {p \in [1..n -> 1..n] :
            /\ \A i, j \in 1..n : i # j => p[i] # p[j]
            /\ \A i \in 1..(n - 1) : similarities[p[i]] <= similarities[p[i + 1]]}

TopIndicesMutantLowest(order, k) == SubSeq(order, 1, Min(k, Len(order)))

\* [-top_k:][::-1]
TopIndices(order, k) == Reverse(SubSeq(order, Max(1, Len(order) - k + 1), Len(order)))

\* line 180: the indices of relevant_docs
RelevantIndices(top_indices, similarities) ==
    SelectSeq(top_indices, LAMBDA idx : similarities[idx] > Threshold)

\* line 181: "\n\n---\n\n".join(relevant_docs)
RECURSIVE JoinDocs(_)
JoinDocs(docs) ==
    IF Len(docs) = 0 THEN <<>>
    ELSE IF Len(docs) = 1 THEN docs[1]
    ELSE docs[1] \o <<"---">> \o JoinDocs(Tail(docs))

Searched(raised, top_indices, relevant, context) ==
    [raised |-> raised, top_indices |-> top_indices, relevant |-> relevant,
     context |-> context]

\* lines 176-181: encode raises, or the scores are sorted, cut and filtered
SearchBody(docs, encodes, similarities, order, k) ==
    IF ~encodes THEN Searched(TRUE, <<>>, <<>>, <<>>)
    ELSE LET top_indices == TopIndices(order, k)
             relevant == RelevantIndices(top_indices, similarities)
         IN  Searched(FALSE, top_indices, relevant,
                      JoinDocs([i \in 1..Len(relevant) |-> docs[relevant[i]]]))

CatchSearchMutantReraise(r) == r

\* lines 182-184: except Exception: return ""
CatchSearch(r) == IF r.raised THEN Searched(FALSE, <<>>, <<>>, <<>>) ELSE r

\* lines 172-184
SearchKnowledge(docs, embs, encodes, similarities, order, k) ==
    IF IndexEmpty(docs, embs) THEN Searched(FALSE, <<>>, <<>>, <<>>)
    ELSE CatchSearch(SearchBody(docs, encodes, similarities, order, k))

\* lines 146-155 over a whole listing: the chunks of its readable .txt files
RECURSIVE LoadAll(_)
LoadAll(fs) ==
    IF Len(fs) = 0 THEN <<>>
    ELSE (IF Head(fs).txt /\ Head(fs).readable
          THEN CreateChunks(Head(fs).words, chunk_size, overlap)
          ELSE <<>>) \o LoadAll(Tail(fs))

\* the index _load_all_documents leaves: the embeddings are those of the chunks,
\* or none when there was no chunk or encode raised
BuiltIndex ==
    /\ \E fs \in SeqsUpTo(DocFiles, MaxFiles) : documents = LoadAll(fs)
    /\ embeddings \in {EncodeAll(documents), <<>>}
    /\ ipc = "built"
    /\ files = <<>>

\* self._search_knowledge(question, top_k) returns
call_search_knowledge ==
    /\ called.op = "_search_knowledge"
    /\ ~called.returned
    /\ \E order \in ArgSorts(called.args.similarities) :
          called' = [called EXCEPT
                        !.returned = TRUE,
                        !.ret = SearchKnowledge(documents, embeddings, called.args.encodes,
                                                called.args.similarities, order,
                                                called.args.top_k)]
    /\ UNCHANGED << storeVars, threadVars, indexVars >>

----------------------------------------------------------------------------
(* tools.py: get_current_time and execute_tool.  A Python value given as     *)
(* args is a dict, a text (the JSON of a map, or text that is no JSON) or    *)
(* None; a text result is the sequence of its parts.                         *)

AVAILABLE_TOOLS == {"get_current_time"}

ToolNames == AVAILABLE_TOOLS \cup {"get_weather", ""}

DefaultTimezone == "Europe/Riga"

KnownTimezones == {"Europe/Riga", "UTC"}

Val(type, v) == [type |-> type, v |-> v]

ArgValues == {Val("str", "UTC"), Val("str", "Mars/Base"), Val("int", "5")}

ArgKeys == {"timezone", "tz"}

ArgMaps == UNION {[keys -> ArgValues] : keys \in SUBSET ArgKeys}

PyDict(map) == [form |-> "dict", wellformed |-> TRUE, map |-> map]

PyText(map) == [form |-> "text", wellformed |-> TRUE, map |-> map]

NoArgs == [k \in {} |-> Val("str", "")]

MalformedText == [form |-> "text", wellformed |-> FALSE, map |-> NoArgs]

PyNone == [form |-> "none", wellformed |-> FALSE, map |-> NoArgs]

ArgInputs ==
    {PyDict(m) : m \in ArgMaps} \cup {PyText(m) : m \in ArgMaps} \cup {MalformedText, PyNone}

Clock == {"Monday 09:00", "Monday 09:01"}

Returned(text) == [raised |-> FALSE, type |-> "str", text |-> text]

Raised(exception) == [raised |-> TRUE, type |-> exception, text |-> <<>>]

\* lines 13-32
get_current_time(timezone, now) ==
    IF timezone.type # "str"
    THEN Returned(<<"Sorry, I encountered an error while trying to get the time.">>)
    ELSE IF timezone.v \notin KnownTimezones
    THEN Returned(<<"Sorry, I don't recognize the timezone", timezone.v>>)
    ELSE Returned(<<"The current time in", timezone.v, "is", now>>)

\* line 83, function_to_call(**args): ** takes a mapping only, and its keys must
\* be parameters of the function
CallKeywords(args, now) ==
    IF args.form # "dict" THEN Raised("TypeError")
    ELSE IF ~(DOMAIN args.map \subseteq {"timezone"}) THEN Raised("TypeError")
    ELSE IF "timezone" \in DOMAIN args.map THEN get_current_time(args.map["timezone"], now)
    ELSE get_current_time(Val("str", DefaultTimezone), now)

ExceptToolMutantReraise(outcome, name) == outcome

\* lines 84-86
ExceptTool(outcome, name) ==
    IF outcome.raised THEN Returned(<<"Error: Could not execute the tool", name>>)
    ELSE outcome

\* lines 68-88
execute_tool(name, args, now) ==
    IF name \in AVAILABLE_TOOLS THEN ExceptTool(CallKeywords(args, now), name)
    ELSE Returned(<<"Error: Tool", name, "not found.">>)

\* tools.execute_tool(name=..., args=...) returns or raises
call_execute_tool ==
    /\ called.op = "execute_tool"
    /\ ~called.returned
    /\ called' = [called EXCEPT
                     !.returned = TRUE,
                     !.ret = execute_tool(called.args.name, called.args.args, called.args.now)]
    /\ UNCHANGED << storeVars, threadVars, indexVars >>

----------------------------------------------------------------------------
(* Initial states *)

InitStore ==
    /\ user_conversations = EmptyMap
    /\ file = NoFile
    /\ nextId = 0
    /\ log = <<>>

\* the map an earlier run of the server left in the durable file: one conversation
\* of u1 holding one finished exchange
PriorMap ==
    [u \in {"u1"} |->
        << [id |-> 1, title |-> Title(<<"h">>),
            history |-> << Msg("user", <<"h">>), Msg("assistant", <<"a">>) >>] >>]

\* the server starts (ConversationMemory.__init__) without a durable file or with one
InitLoaded ==
    /\ file \in {NoFile, SavedFile(PriorMap)}
    /\ user_conversations = LoadMemory(file)
    /\ nextId = IF file = NoFile THEN 0 ELSE 1
    /\ log = <<>>

NoTurn ==
    [message |-> <<>>, username |-> "", user_info |-> "dict", convo_id |-> NoConvoId,
     context |-> <<>>, api_history |-> <<>>, full_bot_response |-> <<>>,
     tool_calls_to_process |-> <<>>]

NoObs ==
    [viaEndpoint |-> FALSE, reqConvoId |-> NoConvoId, knownAtStart |-> FALSE,
     convosAtStart |-> 0, histAtStart |-> <<>>, gwCalls |-> 0, gwEvents |-> <<>>,
     gwRaised |-> FALSE, toolExecs |-> 0, requests |-> <<>>, histAtRequest |-> <<>>,
     appendCalls |-> <<>>, searched |-> "", closed |-> FALSE, eventsAtClose |-> 0]

InitThreads(n) ==
    /\ pc = [t \in Threads |-> "idle"]
    /\ after = [t \in Threads |-> "idle"]
    /\ buf = [t \in Threads |-> {}]
    /\ turn = [t \in Threads |-> NoTurn]
    /\ out = [t \in Threads |-> <<>>]
    /\ gw = [t \in Threads |-> 0]
    /\ obs = [t \in Threads |-> NoObs]
    /\ turnsLeft = n

\* no function is being called on its own
NotCalled == [op |-> "", args |-> <<>>, returned |-> FALSE, ret |-> <<>>]

InitIndex ==
    /\ documents = <<>>
    /\ embeddings = <<>>
    /\ ipc = "built"
    /\ files = <<>>

----------------------------------------------------------------------------
(* save_memory inside a request thread: open truncates the file, pickle.dump *)
(* fills the file object's buffer from the map as it is then, close flushes. *)

Set(f, t, v) == [f EXCEPT ![t] = v]

\* a store call of thread t has changed the map; save_memory runs, then `next`
CallSave(t, next) ==
    /\ pc' = Set(pc, t, "save_open")
    /\ after' = Set(after, t, next)

save_open(t) ==
    /\ pc[t] = "save_open"
    /\ file' = [state |-> "partial", data |-> {}]
    /\ pc' = Set(pc, t, "save_dump")
    /\ UNCHANGED << user_conversations, nextId, log, after, buf, turn, out, gw, obs,
                    turnsLeft, indexVars, called >>

save_dump(t) ==
    /\ pc[t] = "save_dump"
    /\ buf' = Set(buf, t, Pickle(user_conversations))
    /\ pc' = Set(pc, t, "save_close")
    /\ UNCHANGED << storeVars, after, turn, out, gw, obs, turnsLeft, indexVars, called >>

save_close(t) ==
    /\ pc[t] = "save_close"
    /\ file' = [state |-> "complete", data |-> buf[t]]
    /\ pc' = Set(pc, t, after[t])
    /\ UNCHANGED << user_conversations, nextId, log, after, buf, turn, out, gw, obs,
                    turnsLeft, indexVars, called >>

----------------------------------------------------------------------------
(* GroqClient.generate_response_stream: the wire lines and what each yields *)

NoCall == [id |-> "", name |-> "", arguments |-> ""]

ToolCalls == {[id |-> "call_1", name |-> "get_current_time", arguments |-> "{}"]}

Deltas == {<<"a">>, <<"b">>}

Line(kind, content, call) == [kind |-> kind, content |-> content, call |-> call]

\* blank: an empty keep-alive line; done: the [DONE] terminator; junk: text that
\* json.loads or the ["choices"][0]["delta"] lookup rejects with a caught error;
\* badtype: JSON whose lookup raises TypeError, which line 68 does not catch
WireLines ==
    {Line("blank", <<>>, NoCall), Line("done", <<>>, NoCall), Line("junk", <<>>, NoCall),
     Line("badtype", <<>>, NoCall)}
    \cup {Line("text", d, NoCall) : d \in Deltas}
    \cup {Line("tool", <<>>, c) : c \in ToolCalls}

GwEvent(type, content, call) == [type |-> type, content |-> content, call |-> call]

GwError == GwEvent("error", <<"connection">>, NoCall)

\* lines 54-70 for one line: the events yielded, and whether an exception escapes
ParseLine(line) ==
    CASE line.kind = "text" ->
            [events |-> <<GwEvent("chunk", line.content, NoCall)>>, raised |-> FALSE]
      [] line.kind = "tool" ->
            [events |-> <<GwEvent("tool_call", <<>>, line.call)>>, raised |-> FALSE]
      [] line.kind = "badtype" -> [events |-> <<>>, raised |-> TRUE]
      [] OTHER -> [events |-> <<>>, raised |-> FALSE]

Generated(events, raised) == [events |-> events, raised |-> raised]

\* lines 53-70 over the lines of a response body: the events yielded, in order,
\* up to the line whose parse raises
RECURSIVE GenerateLines(_)
GenerateLines(lines) ==
    IF Len(lines) = 0 THEN Generated(<<>>, FALSE)
    ELSE LET parsed == ParseLine(Head(lines))
             rest == GenerateLines(Tail(lines))
         IN  IF parsed.raised THEN Generated(parsed.events, TRUE)
             ELSE Generated(parsed.events \o rest.events, rest.raised)

\* lines 35-70 run to its end.  opens: requests.post and raise_for_status succeed;
\* lines: the body as far as it arrives; breaks: the connection then drops, and
\* response.iter_lines() raises (line 53, outside every try)
generate_response_stream(opens, lines, breaks) ==
    IF ~opens THEN Generated(<<GwError>>, FALSE)
    ELSE LET read == GenerateLines(lines)
         IN  IF read.raised THEN read
             ELSE Generated(read.events, breaks)

\* the generator of groq_client.generate_response_stream(...) is consumed to its end
call_generate_response_stream ==
    /\ called.op = "generate_response_stream"
    /\ ~called.returned
    /\ called' = [called EXCEPT
                     !.returned = TRUE,
                     !.ret = generate_response_stream(called.args.opens, called.args.lines,
                                                      called.args.breaks)]
    /\ UNCHANGED << storeVars, threadVars, indexVars >>

----------------------------------------------------------------------------
(* iTethrBot.get_response_stream, one step per statement that touches the   *)
(* store, the gateway or the caller                                         *)

Event(type, content, convo_id) == [type |-> type, content |-> content, convo_id |-> convo_id]

\* line 263: the event of the except clause; it carries no convo_id
CriticalError == Event("error", <<"critical">>, NoConvoId)

\* line 231: the gateway's error event, forwarded as it is
ForwardedError == Event("error", GwError.content, NoConvoId)

ConvosOf(uc, username) == IF username \in DOMAIN uc THEN uc[username] ELSE <<>>

\* line 226: full_bot_response += result["content"]
AccumulateMutantOverwrite(full, content) == content

Accumulate(full, content) == full \o content

\* line 232: `return` after the forwarded error
AfterErrorMutantBreak == "after_stream"

AfterError == "done"

\* lines 261-263: the except clause yields the critical error as the last statement
\* of the generator
AfterRaiseMutantResumes == "after_stream"

AfterRaise == "done"

\* a chat request arrives: the generator object is created with these arguments
Begin(t, message, username, user_info, convo_id, viaEndpoint, reqConvoId) ==
    /\ pc[t] \in {"idle", "done", "closed"}
    /\ turnsLeft[t] > 0
    /\ turnsLeft' = Set(turnsLeft, t, turnsLeft[t] - 1)
    /\ turn' = Set(turn, t, [NoTurn EXCEPT !.message = message, !.username = username,
                                           !.user_info = user_info, !.convo_id = convo_id])
    /\ obs' = Set(obs, t,
                  [NoObs EXCEPT !.viaEndpoint = viaEndpoint,
                                !.reqConvoId = reqConvoId,
                                !.knownAtStart =
                                    FindConvo(ConvosOf(user_conversations, username), reqConvoId) # 0,
                                !.convosAtStart = Len(ConvosOf(user_conversations, username)),
                                !.histAtStart = HistoryOf(user_conversations, username, reqConvoId)])
    /\ out' = Set(out, t, <<>>)
    /\ gw' = Set(gw, t, 0)
    /\ pc' = Set(pc, t, "start")
    /\ UNCHANGED << storeVars, after, buf, indexVars, called >>

\* main.py 88-90: get_response_stream(message, username, convo_id), positionally, so
\* the request's convo_id becomes user_info and convo_id keeps its default None
chat_endpoint(t, message, username, convo_id) ==
    Begin(t, message, username, IF convo_id = NoConvoId THEN "none" ELSE "str",
          NoConvoId, TRUE, convo_id)

\* get_response_stream(message, username, user_info, convo_id) with a dict user_info
get_response_stream(t, message, username, convo_id) ==
    Begin(t, message, username, "dict", convo_id, FALSE, convo_id)

\* lines 188-189
resolve_conversation(t) ==
    /\ pc[t] = "start"
    /\ IF turn[t].convo_id = NoConvoId
       THEN /\ nextId' = nextId + 1
            /\ user_conversations' =
                   StartNewMap(user_conversations, turn[t].username, nextId + 1, turn[t].message)
            /\ turn' = Set(turn, t, [turn[t] EXCEPT !.convo_id = nextId + 1])
            /\ CallSave(t, "add_user")
       ELSE /\ pc' = Set(pc, t, "add_user")
            /\ UNCHANGED << nextId, user_conversations, turn, after >>
    /\ UNCHANGED << file, log, buf, out, gw, obs, turnsLeft, indexVars, called >>

\* line 191
persist_user_message(t) ==
    /\ pc[t] = "add_user"
    /\ LET message == Msg("user", turn[t].message)
       IN  /\ user_conversations' =
                  AddMessageMap(user_conversations, turn[t].username, turn[t].convo_id, message)
           /\ log' = Logged(turn[t].username, turn[t].convo_id, message)
           /\ obs' = Set(obs, t, [obs[t] EXCEPT !.appendCalls = Append(@, message)])
    /\ CallSave(t, "search")
    /\ UNCHANGED << file, nextId, buf, turn, out, gw, turnsLeft, indexVars, called >>

\* line 193 and lines 172-184 with the default top_k; an exception leaving
\* _search_knowledge would be caught at 261
search_knowledge(t) ==
    /\ pc[t] = "search"
    /\ \E encodes \in BOOLEAN, similarities \in SimilaritiesOf(embeddings) :
       \E order \in ArgSorts(similarities) :
          LET r == SearchKnowledge(documents, embeddings, encodes, similarities, order, top_k)
              how == IF IndexEmpty(documents, embeddings) THEN "empty"
                     ELSE IF ~encodes THEN "failed" ELSE "found"
          IN  /\ obs' = Set(obs, t, [obs[t] EXCEPT !.searched = how])
              /\ IF r.raised
                 THEN /\ out' = Set(out, t, Append(out[t], CriticalError))
                      /\ pc' = Set(pc, t, "done")
                      /\ UNCHANGED turn
                 ELSE /\ turn' = Set(turn, t, [turn[t] EXCEPT !.context = r.context])
                      /\ pc' = Set(pc, t, "prompt")
                      /\ UNCHANGED out
    /\ UNCHANGED << storeVars, after, buf, gw, turnsLeft, indexVars, called >>

\* lines 196-213: the system prompt with the context, or with the sentence that no
\* relevant documentation was found
SystemPrompt(context) ==
    <<"sys">> \o (IF Len(context) = 0 THEN <<"no documentation">> ELSE context)

\* lines 196-218: user_info.get raises AttributeError unless user_info is a dict
\* (caught at 261, which yields the critical error); else the request history is built
build_request(t) ==
    /\ pc[t] = "prompt"
    /\ IF turn[t].user_info # "dict"
       THEN /\ out' = Set(out, t, Append(out[t], CriticalError))
            /\ pc' = Set(pc, t, "done")
            /\ UNCHANGED << user_conversations, turn >>
       ELSE /\ turn' = Set(turn, t,
                   [turn[t] EXCEPT !.api_history =
                       <<Msg("system", SystemPrompt(turn[t].context))>>
                       \o HistoryOf(user_conversations, turn[t].username, turn[t].convo_id)])
            /\ user_conversations' = Touch(user_conversations, turn[t].username)
            /\ pc' = Set(pc, t, "round")
            /\ UNCHANGED out
    /\ UNCHANGED << file, nextId, log, after, buf, gw, obs, turnsLeft, indexVars, called >>

\* lines 221-224 and 36-47: a round starts and the request is posted
RoundStarted(t) ==
    /\ turn' = Set(turn, t, [turn[t] EXCEPT !.full_bot_response = <<>>,
                                           !.tool_calls_to_process = <<>>])
    /\ gw' = Set(gw, t, 0)

gateway_open(t) ==
    /\ pc[t] = "round"
    /\ RoundStarted(t)
    /\ obs' = Set(obs, t, [obs[t] EXCEPT
                  !.gwCalls = @ + 1,
                  !.requests = Append(@, turn[t].api_history),
                  !.histAtRequest =
                      HistoryOf(user_conversations, turn[t].username, turn[t].convo_id)])
    /\ pc' = Set(pc, t, "stream")
    /\ UNCHANGED << storeVars, after, buf, out, turnsLeft, indexVars, called >>

\* lines 48-51 and 230-232: the request fails, the gateway yields its error event
\* and ends; the orchestrator forwards it and returns
gateway_open_fails(t) ==
    /\ pc[t] = "round"
    /\ RoundStarted(t)
    /\ obs' = Set(obs, t, [obs[t] EXCEPT
                  !.gwCalls = @ + 1,
                  !.requests = Append(@, turn[t].api_history),
                  !.histAtRequest =
                      HistoryOf(user_conversations, turn[t].username, turn[t].convo_id),
                  !.gwEvents = Append(@, GwError)])
    /\ out' = Set(out, t, Append(out[t], ForwardedError))
    /\ pc' = Set(pc, t, AfterError)
    /\ UNCHANGED << storeVars, after, buf, turnsLeft, indexVars, called >>

\* lines 225-229 for the events of one line
Consume(tr, events, convo_id) ==
    LET chunks == SelectSeq(events, LAMBDA e : e.type = "chunk")
        calls == SelectSeq(events, LAMBDA e : e.type = "tool_call")
    IN  [turn |-> [tr EXCEPT
                     !.full_bot_response =
                         IF Len(chunks) = 0 THEN @ ELSE Accumulate(@, chunks[1].content),
                     !.tool_calls_to_process =
                         @ \o [i \in 1..Len(calls) |-> calls[i].call]],
         out |-> [i \in 1..Len(chunks) |-> Event("chunk", chunks[i].content, convo_id)]]

\* lines 53-70 and 225-229: the next wire line is read and its events consumed; an
\* exception of the parse escapes the generator and is caught at 261
gateway_line(t, line) ==
    /\ pc[t] = "stream"
    /\ gw[t] < MaxLines
    /\ gw' = Set(gw, t, gw[t] + 1)
    /\ LET parsed == ParseLine(line)
           got == Consume(turn[t], parsed.events, turn[t].convo_id)
       IN  IF parsed.raised
           THEN /\ obs' = Set(obs, t, [obs[t] EXCEPT !.gwRaised = TRUE])
                /\ out' = Set(out, t, Append(out[t], CriticalError))
                /\ pc' = Set(pc, t, AfterRaise)
                /\ UNCHANGED turn
           ELSE /\ obs' = Set(obs, t, [obs[t] EXCEPT !.gwEvents = @ \o parsed.events])
                /\ turn' = Set(turn, t, got.turn)
                /\ out' = Set(out, t, out[t] \o got.out)
                /\ UNCHANGED pc
    /\ UNCHANGED << storeVars, after, buf, turnsLeft, indexVars, called >>

\* line 232 is not reached: the generator is closed where it stands
AfterCloseMutantResumes == "stream"

AfterClose == "closed"

\* lines 225-227 when the consumer has gone: the chunk of a text line is yielded and
\* the generator is closed at that yield.  close() raises GeneratorExit at line 227;
\* it is no Exception, so line 261 does not catch it, and the generator and the
\* gateway generator it was reading end there.
consumer_closes(t, line) ==
    /\ pc[t] = "stream"
    /\ gw[t] < MaxLines
    /\ line.kind = "text"
    /\ gw' = Set(gw, t, gw[t] + 1)
    /\ LET parsed == ParseLine(line)
           got == Consume(turn[t], parsed.events, turn[t].convo_id)
       IN  /\ obs' = Set(obs, t, [obs[t] EXCEPT
                         !.gwEvents = @ \o parsed.events,
                         !.closed = TRUE,
                         !.eventsAtClose = Len(obs[t].gwEvents) + Len(parsed.events)])
           /\ turn' = Set(turn, t, got.turn)
           /\ out' = Set(out, t, out[t] \o got.out)
    /\ pc' = Set(pc, t, AfterClose)
    /\ UNCHANGED << storeVars, after, buf, turnsLeft, indexVars, called >>

\* line 53: response.iter_lines() raises while the body is read (the connection
\* drops); nothing in the generator catches it, line 261 does
gateway_read_fails(t) ==
    /\ pc[t] = "stream"
    /\ obs' = Set(obs, t, [obs[t] EXCEPT !.gwRaised = TRUE])
    /\ out' = Set(out, t, Append(out[t], CriticalError))
    /\ pc' = Set(pc, t, AfterRaise)
    /\ UNCHANGED << storeVars, after, buf, turn, gw, turnsLeft, indexVars, called >>

\* line 53: the response body ends
gateway_end(t) ==
    /\ pc[t] = "stream"
    /\ pc' = Set(pc, t, "after_stream")
    /\ UNCHANGED << storeVars, after, buf, turn, out, gw, obs, turnsLeft, indexVars, called >>

\* lines 234-236: tool calls were collected.  Line 236 calls
\* self.memory.add__message_to_conversation, a name ConversationMemory does not
\* define: AttributeError, caught at 261.  Lines 237-255 (tools.execute_tool, the
\* tool result messages, `continue` into the next round) are never reached.
tool_calls_round(t) ==
    /\ pc[t] = "after_stream"
    /\ Len(turn[t].tool_calls_to_process) > 0
    /\ out' = Set(out, t, Append(out[t], CriticalError))
    /\ pc' = Set(pc, t, "done")
    /\ UNCHANGED << storeVars, after, buf, turn, gw, obs, turnsLeft, indexVars, called >>

\* lines 256-257: no tool call; the accumulated text is persisted
persist_response(t) ==
    /\ pc[t] = "after_stream"
    /\ Len(turn[t].tool_calls_to_process) = 0
    /\ LET message == Msg("assistant", turn[t].full_bot_response)
       IN  /\ user_conversations' =
                  AddMessageMap(user_conversations, turn[t].username, turn[t].convo_id, message)
           /\ log' = Logged(turn[t].username, turn[t].convo_id, message)
           /\ obs' = Set(obs, t, [obs[t] EXCEPT !.appendCalls = Append(@, message)])
    /\ CallSave(t, "yield_end")
    /\ UNCHANGED << file, nextId, buf, turn, out, gw, turnsLeft, indexVars, called >>

\* lines 258-259
yield_end(t) ==
    /\ pc[t] = "yield_end"
    /\ out' = Set(out, t, Append(out[t], Event("end", <<>>, turn[t].convo_id)))
    /\ pc' = Set(pc, t, "done")
    /\ UNCHANGED << storeVars, after, buf, turn, gw, obs, turnsLeft, indexVars, called >>

ConvoIdInputs == {NoConvoId} \cup UnknownIds \cup IssuedIds

TurnStep(t) ==
    \/ \E m \in Texts, u \in Usernames, c \in ConvoIdInputs : chat_endpoint(t, m, u, c)
    \/ \E m \in Texts, u \in Usernames, c \in ConvoIdInputs : get_response_stream(t, m, u, c)
    \/ resolve_conversation(t)
    \/ persist_user_message(t)
    \/ save_open(t)
    \/ save_dump(t)
    \/ save_close(t)
    \/ search_knowledge(t)
    \/ build_request(t)
    \/ gateway_open(t)
    \/ gateway_open_fails(t)
    \/ \E line \in WireLines : gateway_line(t, line)
    \/ \E d \in Deltas : consumer_closes(t, Line("text", d, NoCall))
    \/ gateway_read_fails(t)
    \/ gateway_end(t)
    \/ tool_calls_round(t)
    \/ persist_response(t)
    \/ yield_end(t)

----------------------------------------------------------------------------
(* Chat turns one after the other on one server thread *)

Init ==
    /\ InitLoaded
    /\ InitThreads([t \in Threads |-> IF t = 1 THEN MaxTurns ELSE 0])
    /\ InitIndex
    /\ called = NotCalled

Next == \E t \in Threads : TurnStep(t)

Spec == Init /\ [][Next]_vars

----------------------------------------------------------------------------
(* Two chat requests at once, each get_response_stream in its own thread *)

ConcInit == InitLoaded /\ InitThreads([t \in Threads |-> 1]) /\ InitIndex /\ called = NotCalled

\* the requests are well-formed turns whose model response is text
ConcStep(t) ==
    \/ \E m \in FirstMessages, u \in Usernames, c \in {NoConvoId} \cup IssuedIds :
            get_response_stream(t, m, u, c)
    \/ resolve_conversation(t)
    \/ persist_user_message(t)
    \/ save_open(t)
    \/ save_dump(t)
    \/ save_close(t)
    \/ search_knowledge(t)
    \/ build_request(t)
    \/ gateway_open(t)
    \/ gateway_line(t, Line("text", <<"a">>, NoCall))
    \/ gateway_end(t)
    \/ persist_response(t)
    \/ yield_end(t)

ConcNext == \E t \in Threads : ConcStep(t)

SpecConc == ConcInit /\ [][ConcNext]_vars

----------------------------------------------------------------------------
(* The build of the Knowledge Index at startup (iTethrBot.__init__) *)

IndexInit ==
    /\ InitStore
    /\ InitThreads([t \in Threads |-> 0])
    /\ documents = <<>>
    /\ embeddings = <<>>
    /\ ipc = "start"
    /\ files \in SeqsUpTo(DocFiles, MaxFiles)
    /\ called = NotCalled

IndexNext ==
    \/ missing_documents_dir
    \/ list_documents
    \/ skip_file
    \/ load_document
    \/ load_document_fails
    \/ no_documents
    \/ encode_documents
    \/ encode_fails

SpecIndex == IndexInit /\ [][IndexNext]_vars

----------------------------------------------------------------------------
(* _search_knowledge called on a built index *)

SearchInit ==
    /\ InitStore
    /\ InitThreads([t \in Threads |-> 0])
    /\ BuiltIndex
    /\ \E encodes \in BOOLEAN, similarities \in SimilaritiesOf(embeddings), k \in 1..MaxTopK :
          called = [op |-> "_search_knowledge",
                    args |-> [encodes |-> encodes, similarities |-> similarities, top_k |-> k],
                    returned |-> FALSE, ret |-> <<>>]

SearchNext == call_search_knowledge

SpecSearch == SearchInit /\ [][SearchNext]_vars

----------------------------------------------------------------------------
(* A chat turn on a built index: the retrieval step and what follows it *)

RetrievalInit ==
    /\ InitStore
    /\ InitThreads([t \in Threads |-> IF t = 1 THEN 1 ELSE 0])
    /\ BuiltIndex
    /\ called = NotCalled

\* the requests are well-formed turns whose model response is text
RetrievalStep(t) ==
    \/ \E m \in FirstMessages, u \in Usernames : get_response_stream(t, m, u, NoConvoId)
    \/ resolve_conversation(t)
    \/ persist_user_message(t)
    \/ save_open(t)
    \/ save_dump(t)
    \/ save_close(t)
    \/ search_knowledge(t)
    \/ build_request(t)
    \/ gateway_open(t)
    \/ gateway_open_fails(t)
    \/ gateway_line(t, Line("text", <<"a">>, NoCall))
    \/ gateway_end(t)
    \/ persist_response(t)
    \/ yield_end(t)

RetrievalNext == \E t \in Threads : RetrievalStep(t)

SpecRetrieval == RetrievalInit /\ [][RetrievalNext]_vars

----------------------------------------------------------------------------
(* _create_chunks called on a text with a window W and an overlap O, 0 <= O < W *)

ChunkerInit ==
    /\ InitStore
    /\ InitThreads([t \in Threads |-> 0])
    /\ InitIndex
    /\ \E content \in SeqsUpTo(Chars, MaxChars), W \in 1..MaxWindow :
       \E O \in 0..(W - 1) :
          called = [op |-> "_create_chunks",
                    args |-> [content |-> content, chunk_size |-> W, overlap |-> O],
                    returned |-> FALSE, ret |-> <<>>]

ChunkerNext == call_create_chunks

SpecChunker == ChunkerInit /\ [][ChunkerNext]_vars

----------------------------------------------------------------------------
(* execute_tool called with a name and a value for args *)

ToolsInit ==
    /\ InitStore
    /\ InitThreads([t \in Threads |-> 0])
    /\ InitIndex
    /\ \E name \in ToolNames, args \in ArgInputs, now \in Clock :
          called = [op |-> "execute_tool",
                    args |-> [name |-> name, args |-> args, now |-> now],
                    returned |-> FALSE, ret |-> <<>>]

ToolsNext == call_execute_tool

SpecTools == ToolsInit /\ [][ToolsNext]_vars

----------------------------------------------------------------------------
(* generate_response_stream consumed to its end on one response of the endpoint *)

GatewayInit ==
    /\ InitStore
    /\ InitThreads([t \in Threads |-> 0])
    /\ InitIndex
    /\ \E opens \in BOOLEAN, lines \in SeqsUpTo(WireLines, MaxLines), breaks \in BOOLEAN :
          called = [op |-> "generate_response_stream",
                    args |-> [opens |-> opens, lines |-> lines, breaks |-> breaks],
                    returned |-> FALSE, ret |-> <<>>]

GatewayNext == call_generate_response_stream

SpecGateway == GatewayInit /\ [][GatewayNext]_vars

----------------------------------------------------------------------------
(* One chat turn whose consumer reads the generator to its end: every next() *)
(* of the consumer runs the generator to its next yield or to its return, and *)
(* every gateway response is finite (at most MaxLines lines).                 *)

LiveInit ==
    /\ InitLoaded
    /\ InitThreads([t \in Threads |-> IF t = 1 THEN 1 ELSE 0])
    /\ InitIndex
    /\ called = NotCalled

\* the steps of a running generator
RunStep(t) ==
    \/ resolve_conversation(t)
    \/ persist_user_message(t)
    \/ save_open(t)
    \/ save_dump(t)
    \/ save_close(t)
    \/ search_knowledge(t)
    \/ build_request(t)
    \/ gateway_open(t)
    \/ gateway_open_fails(t)
    \/ \E line \in WireLines : gateway_line(t, line)
    \/ gateway_read_fails(t)
    \/ gateway_end(t)
    \/ tool_calls_round(t)
    \/ persist_response(t)
    \/ yield_end(t)

LiveStep(t) ==
    \/ \E m \in Texts, u \in Usernames, c \in ConvoIdInputs : chat_endpoint(t, m, u, c)
    \/ \E m \in Texts, u \in Usernames, c \in ConvoIdInputs : get_response_stream(t, m, u, c)
    \/ RunStep(t)

LiveNext == \E t \in Threads : LiveStep(t)

SpecLive == LiveInit /\ [][LiveNext]_vars /\ \A t \in Threads : WF_vars(RunStep(t))

----------------------------------------------------------------------------
(* The Conversation Store called directly *)

StoreInit == InitStore /\ InitThreads([t \in Threads |-> 0]) /\ InitIndex /\ called = NotCalled

StoreNext ==
    \/ \E u \in Usernames, m \in FirstMessages : start_new_conversation(u, m)
    \/ \E u \in Usernames, c \in IssuedIds \cup UnknownIds, m \in StoreMsgs :
            add_message_to_conversation(u, c, m)
    \/ \E u \in Usernames, c \in IssuedIds \cup UnknownIds : get_conversation_history(u, c)
    \/ \E u \in Usernames : get_all_conversations_for_user(u)
    \/ ConversationMemory

SpecStore == StoreInit /\ [][StoreNext]_vars

----------------------------------------------------------------------------
(* Properties *)

Assistant(history) == SelectSeq(history, LAMBDA m : m.role = "assistant")

RECURSIVE Concat(_)
Concat(events) == IF Len(events) = 0 THEN <<>> ELSE Head(events).content \o Concat(Tail(events))

HasEvent(events, type) == \E i \in 1..Len(events) : events[i].type = type

Known(t) == FindConvo(ConvosOf(user_conversations, turn[t].username), turn[t].convo_id) # 0

Stored(t) == HistoryOf(user_conversations, turn[t].username, turn[t].convo_id)

\* the first gateway response of the finished turn was read to its end, without error
FirstStreamRead(t) ==
    /\ pc[t] = "done"
    /\ obs[t].gwCalls >= 1
    /\ ~obs[t].gwRaised
    /\ ~HasEvent(obs[t].gwEvents, "error")

ToolCallsSeen(t) == Len(SelectSeq(obs[t].gwEvents, LAMBDA e : e.type = "tool_call"))

\* C1 (as claimed): a turn whose first gateway response requests exactly one tool
\* call executes the tool once, invokes the gateway twice and ends with an `end`
\* event, not an `error` event.
C1_OneToolCallOneMoreRound ==
    \A t \in Threads :
        (FirstStreamRead(t) /\ ToolCallsSeen(t) = 1) =>
            /\ obs[t].toolExecs = 1
            /\ obs[t].gwCalls = 2
            /\ out[t][Len(out[t])].type = "end"
            /\ ~HasEvent(out[t], "error")

\* a finished turn whose gateway responses held no tool-call request and no error
TextTurn(t) == FirstStreamRead(t) /\ ToolCallsSeen(t) = 0

ForwardedChunks(t) ==
    [i \in 1..Len(obs[t].gwEvents) |->
        Event("chunk", obs[t].gwEvents[i].content, turn[t].convo_id)]

Reply(t) == Msg("assistant", Concat(obs[t].gwEvents))

\* C2 (as claimed, on a conversation of the user's list): a turn without tool-call
\* request and without error makes one gateway invocation, emits one or more chunk
\* events and then exactly one end event, and the conversation gains exactly one
\* assistant message, the concatenation of the text deltas in order.
C2_TextTurnAsClaimed ==
    \A t \in Threads :
        (TextTurn(t) /\ Known(t)) =>
            /\ obs[t].gwCalls = 1
            /\ Len(obs[t].gwEvents) >= 1
            /\ out[t] = ForwardedChunks(t) \o <<Event("end", <<>>, turn[t].convo_id)>>
            /\ Assistant(Stored(t)) = Assistant(obs[t].histAtStart) \o <<Reply(t)>>

\* C2 (amended): such a turn makes one gateway invocation, emits one chunk event
\* per text delta (there may be none) and then exactly one end event, and calls
\* add_message_to_conversation once with an assistant message, the concatenation
\* of the text deltas in order; the conversation gains exactly the user message
\* and that message whenever the turn's id is in the user's list.
C2_TextTurn ==
    \A t \in Threads :
        TextTurn(t) =>
            /\ obs[t].gwCalls = 1
            /\ out[t] = ForwardedChunks(t) \o <<Event("end", <<>>, turn[t].convo_id)>>
            /\ Assistant(obs[t].appendCalls) = <<Reply(t)>>
            /\ Known(t) =>
                 Stored(t) = obs[t].histAtStart \o <<Msg("user", turn[t].message), Reply(t)>>

C2_Witness ==
    \E t \in Threads :
        /\ TextTurn(t)
        /\ obs[t].knownAtStart
        /\ Len(obs[t].gwEvents) = 2
        /\ Reply(t).content = <<"a", "b">>
        /\ Len(Stored(t)) = Len(obs[t].histAtStart) + 2

\* C3: once the gateway has produced an error event, the turn is over: the
\* forwarded error is the last event, only chunk events precede it (no end), and
\* no assistant message was appended for the turn.
C3_GatewayErrorEndsTurn ==
    \A t \in Threads :
        HasEvent(obs[t].gwEvents, "error") =>
            /\ pc[t] = "done"
            /\ Len(out[t]) >= 1
            /\ out[t][Len(out[t])] = ForwardedError
            /\ \A i \in 1..(Len(out[t]) - 1) : out[t][i].type = "chunk"
            /\ Assistant(obs[t].appendCalls) = <<>>
            /\ Assistant(Stored(t)) = Assistant(obs[t].histAtStart)

C3_Witness ==
    \E t \in Threads :
        /\ HasEvent(obs[t].gwEvents, "error")
        /\ pc[t] = "done"
        /\ obs[t].knownAtStart
        /\ out[t] = <<ForwardedError>>
        /\ Stored(t) = obs[t].histAtStart \o <<Msg("user", turn[t].message)>>

\* C4 (as claimed): a finished /api/chat request that named an existing
\* conversation of the user ran on it: the user message was appended to its
\* history, the user has as many conversations as before, and every outward
\* event carries that id.
C4_EndpointKeepsConversation ==
    \A t \in Threads :
        (pc[t] = "done" /\ obs[t].viaEndpoint /\ obs[t].knownAtStart) =>
            LET username == turn[t].username
                history == HistoryOf(user_conversations, username, obs[t].reqConvoId)
            IN  /\ Len(ConvosOf(user_conversations, username)) = obs[t].convosAtStart
                /\ Len(history) > Len(obs[t].histAtStart)
                /\ history[Len(obs[t].histAtStart) + 1] = Msg("user", turn[t].message)
                /\ \A i \in 1..Len(out[t]) : out[t][i].convo_id = obs[t].reqConvoId

\* C5 (as claimed): when the gateway is first invoked, the stored history of the
\* turn's conversation id ends with the incoming user message, and the request is
\* the system message followed by that stored history.
C5_RequestEndsWithUserMessage ==
    \A t \in Threads :
        obs[t].gwCalls >= 1 =>
            LET request == obs[t].requests[1]
                stored == obs[t].histAtRequest
            IN  /\ Len(stored) >= 1
                /\ stored[Len(stored)] = Msg("user", turn[t].message)
                /\ request[1].role = "system"
                /\ Tail(request) = stored

\* C6: the history of every conversation of the store is the messages appended to
\* it (under its username and id), in the order of the calls; it is empty right
\* after the conversation is created.
C6_HistoryInInsertionOrder ==
    \A u \in Usernames, c \in IssuedIds :
        FindConvo(ConvosOf(user_conversations, u), c) # 0 =>
            HistoryOf(user_conversations, u, c) = LogOf(u, c)

C6_Witness ==
    \E u \in Usernames, c \in IssuedIds, d \in IssuedIds :
        /\ c # d
        /\ Len(log) = 3
        /\ log[1][2] = c /\ log[2][2] = d /\ log[3][2] = c
        /\ HistoryOf(user_conversations, u, c) =
               << Msg("user", <<"h">>), Msg("assistant", <<"a">>) >>
        /\ \E v \in Usernames : Len(HistoryOf(user_conversations, v, d)) = 1

\* the last call of add_message_to_conversation named an id that was not in the
\* user's list
AppendToUnknown ==
    /\ Len(log') = Len(log) + 1
    /\ LET call == log'[Len(log')]
       IN  FindConvo(ConvosOf(user_conversations, call[1]), call[2]) = 0

\* C7 (as claimed): add_message_to_conversation with an id that is not in the
\* user's list leaves the in-memory map unchanged (usernames, lists, histories).
C7_UnknownIdLeavesMap ==
    [][AppendToUnknown => user_conversations' = user_conversations]_vars

ReadStep ==
    \/ \E u \in Usernames, c \in IssuedIds \cup UnknownIds : get_conversation_history(u, c)
    \/ \E u \in Usernames : get_all_conversations_for_user(u)

\* C23 (as claimed): get_conversation_history and get_all_conversations_for_user
\* leave the store as it was, for usernames without conversations too: the map has
\* the same users (the admin page's count of users with history) and the same
\* lists, so the content a later save writes is the same.
C23_ReadsLeaveStoreUnchanged ==
    [][ReadStep =>
          /\ DOMAIN user_conversations' = DOMAIN user_conversations
          /\ user_conversations' = user_conversations
          /\ Pickle(user_conversations') = Pickle(user_conversations)]_vars

\* C9 (as claimed): once both concurrent turns have finished, the durable file is
\* completely written and holds the in-memory map, every appended message included.
C9_NoLostUpdate ==
    (\A t \in Threads : pc[t] = "done") =>
        /\ file.state = "complete"
        /\ LoadMemory(file) = user_conversations

\* C10 (as claimed): the chunks and the embeddings of the Knowledge Index have the
\* same length at all times, embedding i being that of chunk i.
C10_IndexSynchronized ==
    /\ Len(documents) = Len(embeddings)
    /\ \A i \in 1..Len(documents) : embeddings[i] = Embed(documents[i])

\* C17: once the consumer has closed the generator at the yield of a chunk, the
\* turn stays where it was closed: no gateway event is consumed after the chunk
\* that was being yielded, no end and no error event is emitted, and no assistant
\* message is appended to the conversation for the turn.
C17_ClosedTurnPersistsNothing ==
    \A t \in Threads :
        obs[t].closed =>
            /\ pc[t] = "closed"
            /\ Len(obs[t].gwEvents) = obs[t].eventsAtClose
            /\ Len(out[t]) >= 1
            /\ \A i \in 1..Len(out[t]) : out[t][i].type = "chunk"
            /\ turn[t].full_bot_response = Concat(out[t])
            /\ Assistant(obs[t].appendCalls) = <<>>
            /\ Assistant(Stored(t)) = Assistant(obs[t].histAtStart)

C17_Witness ==
    \E t \in Threads :
        /\ obs[t].closed
        /\ obs[t].knownAtStart
        /\ Len(out[t]) = 2
        /\ gw[t] = 2
        /\ Stored(t) = obs[t].histAtStart \o <<Msg("user", turn[t].message)>>

Terminal(e) == e.type \in {"end", "error"}

Terminals(events) == Len(SelectSeq(events, Terminal))

\* C22: a turn that is consumed to its end, whatever the gateway responses hold
\* (text, tool-call requests, an error, a raised exception), eventually emits a
\* terminal event; it emits one terminal event, end or error, never two, and the
\* terminal event is the last event of the turn.
C22_OneTerminalEvent ==
    /\ [](\A t \in Threads :
            /\ Terminals(out[t]) <= 1
            /\ Terminals(out[t]) = 1 => (pc[t] = "done" /\ Terminal(out[t][Len(out[t])]))
            /\ pc[t] = "done" => Terminals(out[t]) = 1)
    /\ \A t \in Threads : (pc[t] = "start") ~> (pc[t] = "done" /\ Terminals(out[t]) = 1)

C22_Witness ==
    \E t \in Threads :
        /\ pc[t] = "done"
        /\ obs[t].gwRaised
        /\ Len(out[t]) = 2
        /\ out[t][1].type = "chunk"
        /\ out[t][2] = CriticalError

----------------------------------------------------------------------------
(* Properties of the retrieval step of a turn *)

\* C12: _search_knowledge never raises into the turn.  A query on an empty index (no
\* chunks or no embeddings) and a query whose embedding computation fails give the
\* empty context; the turn emits no critical error, goes on to invoke the Model
\* Gateway, and the request's system message says that no documentation was found.
C12_RetrievalNeverAbortsTurn ==
    \A t \in Threads :
        /\ obs[t].searched # "" =>
              /\ CriticalError \notin Range(out[t])
              /\ pc[t] = "done" => obs[t].gwCalls >= 1
        /\ obs[t].searched \in {"empty", "failed"} =>
              /\ turn[t].context = <<>>
              /\ obs[t].gwCalls >= 1 =>
                    obs[t].requests[1][1] = Msg("system", <<"sys", "no documentation">>)

C12_Witness ==
    \E t \in Threads :
        /\ obs[t].searched = "failed"
        /\ Len(documents) = 2
        /\ Len(embeddings) = 2
        /\ pc[t] = "done"
        /\ obs[t].gwCalls = 1
        /\ out[t][Len(out[t])].type = "end"

C12_WitnessEmptyIndex ==
    \E t \in Threads :
        /\ obs[t].searched = "empty"
        /\ Len(documents) = 2
        /\ Len(embeddings) = 0
        /\ pc[t] = "done"
        /\ obs[t].gwCalls = 1

----------------------------------------------------------------------------
(* Properties of _create_chunks *)

ChunksReturned == called.op = "_create_chunks" /\ called.returned

\* the first n words of every chunk (the whole chunk when it is shorter), in order
RECURSIVE FirstWords(_, _)
FirstWords(chunks, n) ==
    IF Len(chunks) = 0 THEN <<>>
    ELSE Take(Split(Head(chunks)), n) \o FirstWords(Tail(chunks), n)

\* C13: for every window W and overlap O with 0 <= O < W and every text, the first
\* W-O words of the chunks of _create_chunks, concatenated in order, are the
\* whitespace-split words of the text; an empty or all-whitespace text gives no chunk.
C13_ChunksReconstructText ==
    ChunksReturned =>
        LET words == Split(called.args.content)
        IN  /\ FirstWords(called.ret, called.args.chunk_size - called.args.overlap) = words
            /\ Len(words) = 0 => called.ret = <<>>

C13_Witness ==
    /\ ChunksReturned
    /\ called.args.chunk_size = 2
    /\ called.args.overlap = 1
    /\ "\t" \in Range(called.args.content)
    /\ Len(called.ret) = 3
    /\ Len(Split(called.ret[1])) = 2
    /\ Len(Split(called.ret[3])) = 1

CeilDiv(a, b) == (a + b - 1) \div b

\* C21 (as claimed): for a text of N >= 1 words the number of chunks is
\* ceil(max(N-O,1)/(W-O)).
C21_ChunkCountAsClaimed ==
    (ChunksReturned /\ Len(Split(called.args.content)) >= 1) =>
        LET N == Len(Split(called.args.content))
            W == called.args.chunk_size
            O == called.args.overlap
        IN  Len(called.ret) = CeilDiv(Max(N - O, 1), W - O)

\* C21 (amended): for a text of N >= 1 words the number of chunks is ceil(N/(W-O)),
\* one chunk for every window start 0, W-O, 2(W-O), ... below N.
C21_ChunkCount ==
    (ChunksReturned /\ Len(Split(called.args.content)) >= 1) =>
        LET N == Len(Split(called.args.content))
            W == called.args.chunk_size
            O == called.args.overlap
        IN  /\ Len(called.ret) = CeilDiv(N, W - O)
            /\ \A k \in 1..Len(called.ret) : (k - 1) * (W - O) < N

C21_Witness ==
    /\ ChunksReturned
    /\ Len(Split(called.args.content)) = 3
    /\ called.args.chunk_size = 3
    /\ called.args.overlap = 2
    /\ Len(called.ret) = 3
    /\ CeilDiv(Max(3 - called.args.overlap, 1),
               called.args.chunk_size - called.args.overlap) = 1

----------------------------------------------------------------------------
(* Properties of _search_knowledge *)

SearchReturned == called.op = "_search_knowledge" /\ called.returned

\* how many stored chunks are more similar to the question than chunk idx
Better(similarities, idx) ==
    Cardinality({j \in 1..Len(similarities) : similarities[j] > similarities[idx]})

\* C11: for every top_k >= 1 and all similarity scores, the chunks _search_knowledge
\* returns are chunks of the index, at most top_k of them, each among the top_k
\* most similar, in non-increasing order of similarity, none with a similarity of
\* 0.3 or less; the returned text is these chunks joined.
C11_TopKAboveThreshold ==
    SearchReturned =>
        LET similarities == called.args.similarities
            found == called.ret.relevant
        IN  /\ ~called.ret.raised
            /\ Len(found) <= called.args.top_k
            /\ \A i \in 1..Len(found) : found[i] \in 1..Len(documents)
            /\ \A i, j \in 1..Len(found) : i # j => found[i] # found[j]
            /\ \A i \in 1..Len(found) : Better(similarities, found[i]) < called.args.top_k
            /\ \A i \in 1..(Len(found) - 1) :
                  similarities[found[i]] >= similarities[found[i + 1]]
            /\ \A i \in 1..Len(found) : similarities[found[i]] > Threshold
            /\ called.ret.context = JoinDocs([i \in 1..Len(found) |-> documents[found[i]]])

C11_Witness ==
    /\ SearchReturned
    /\ Len(documents) = 3
    /\ called.args.top_k = 2
    /\ Len(called.ret.top_indices) = 2
    /\ Len(called.ret.relevant) = 1
    /\ called.args.similarities[called.ret.top_indices[1]] > Threshold
    /\ called.args.similarities[called.ret.top_indices[2]] = Threshold
    /\ \E idx \in 1..3 : called.args.similarities[idx] < Threshold

\* C20 (as claimed): among stored chunks of equal similarity the one inserted
\* earlier is selected into the top_k first and comes earlier in the result.
C20_TiesByInsertionOrder ==
    SearchReturned =>
        LET similarities == called.args.similarities
            top_indices == called.ret.top_indices
            found == called.ret.relevant
        IN  /\ \A i \in 1..Len(top_indices), earlier \in 1..Len(similarities) :
                  (earlier < top_indices[i]
                     /\ similarities[earlier] = similarities[top_indices[i]])
                  => earlier \in Range(top_indices)
            /\ \A i, j \in 1..Len(found) :
                  (i < j /\ similarities[found[i]] = similarities[found[j]])
                  => found[i] < found[j]

----------------------------------------------------------------------------
(* Properties of execute_tool *)

ToolReturned == called.op = "execute_tool" /\ called.returned

\* the keyword arguments are not ones get_current_time can be called with
MalformedArgs(args) == args.form # "dict" \/ ~(DOMAIN args.map \subseteq {"timezone"})

\* C14: execute_tool, given a name that is text, never lets an exception out and
\* returns text: for an unknown name the "not found" error text, for malformed
\* arguments and for a call that raises the "could not execute" error text, and
\* for a timezone that is no text or is not recognized the capability's own
\* apology text.
C14_ExecuteToolNeverRaises ==
    ToolReturned =>
        LET name == called.args.name
            args == called.args.args
        IN  /\ ~called.ret.raised
            /\ called.ret.type = "str"
            /\ name \notin AVAILABLE_TOOLS =>
                  called.ret.text = <<"Error: Tool", name, "not found.">>
            /\ (name \in AVAILABLE_TOOLS /\ MalformedArgs(args)) =>
                  called.ret.text = <<"Error: Could not execute the tool", name>>
            /\ (name \in AVAILABLE_TOOLS /\ ~MalformedArgs(args)
                  /\ "timezone" \in DOMAIN args.map
                  /\ args.map["timezone"] \notin {Val("str", z) : z \in KnownTimezones}) =>
                  called.ret.text[1] \in
                      {"Sorry, I encountered an error while trying to get the time.",
                       "Sorry, I don't recognize the timezone"}

C14_Witness ==
    /\ ToolReturned
    /\ called.args.name = "get_current_time"
    /\ called.args.args.form = "dict"
    /\ DOMAIN called.args.args.map = {"timezone", "tz"}
    /\ called.ret = Returned(<<"Error: Could not execute the tool", "get_current_time">>)

\* C15 (as claimed): execute_tool called with the name of a registered capability
\* and, as args, the text of a well-formed map of its parameters returns what the
\* capability returns for those arguments, not an error text.
C15_TextArgumentsAreParsed ==
    (/\ ToolReturned
     /\ called.args.name \in AVAILABLE_TOOLS
     /\ called.args.args.form = "text"
     /\ called.args.args.wellformed
     /\ DOMAIN called.args.args.map \subseteq {"timezone"}) =>
        called.ret = CallKeywords(PyDict(called.args.args.map), called.args.now)

----------------------------------------------------------------------------
(* Properties of generate_response_stream *)

GatewayReturned == called.op = "generate_response_stream" /\ called.returned

KindsOf(lines) == {lines[i].kind : i \in 1..Len(lines)}

\* the events of the well-formed lines: one chunk per text delta, one tool_call
\* per tool-call delta
RECURSIVE WellFormedEvents(_)
WellFormedEvents(lines) ==
    IF Len(lines) = 0 THEN <<>>
    ELSE (CASE Head(lines).kind = "text" -> <<GwEvent("chunk", Head(lines).content, NoCall)>>
            [] Head(lines).kind = "tool" -> <<GwEvent("tool_call", <<>>, Head(lines).call)>>
            [] OTHER -> <<>>) \o WellFormedEvents(Tail(lines))

\* the network failed: the request did not open, or the connection dropped while
\* the (well-formed) body was read
NetworkFailed ==
    \/ ~called.args.opens
    \/ called.args.breaks /\ "badtype" \notin KindsOf(called.args.lines)

\* C16 (as claimed): a network failure, at the opening of the request or while
\* the response lines are read, raises nothing out of generate_response_stream:
\* the sequence ends with the one error event it yields.
C16_NetworkFailureIsErrorEvent ==
    (GatewayReturned /\ NetworkFailed) =>
        LET events == called.ret.events
        IN  /\ ~called.ret.raised
            /\ Len(events) >= 1
            /\ events[Len(events)].type = "error"
            /\ \A i \in 1..(Len(events) - 1) : events[i].type # "error"

\* C18 (as claimed): on a response that opens and is read to its end, lines that
\* are no well-formed data of the expected shape are skipped: nothing is raised,
\* and the events are those of the well-formed lines, the ones after a malformed
\* line included.
C18_MalformedLinesSkipped ==
    (GatewayReturned /\ called.args.opens /\ ~called.args.breaks) =>
        /\ ~called.ret.raised
        /\ called.ret.events = WellFormedEvents(called.args.lines)

\* the lines before the first [DONE] line
RECURSIVE UpToDone(_)
UpToDone(lines) ==
    IF Len(lines) = 0 \/ Head(lines).kind = "done" THEN <<>>
    ELSE <<Head(lines)>> \o UpToDone(Tail(lines))

\* C19 (as claimed): on a response that opens and is read to its end without a
\* parse exception, the [DONE] line ends the iteration: the events are those of
\* the lines before it, none for [DONE] and none for a line after it.
C19_DoneEndsIteration ==
    (GatewayReturned /\ called.args.opens /\ ~called.args.breaks
       /\ "badtype" \notin KindsOf(called.args.lines)) =>
        called.ret.events = WellFormedEvents(UpToDone(called.args.lines))

----------------------------------------------------------------------------
(* Ownership of conversations *)

\* the places (username, position) of the map that hold a conversation with this id
Owners(uc, convo_id) ==
    {p \in {<<u, i>> : u \in DOMAIN uc, i \in 1..MaxConvos + 2} :
        p[2] <= Len(uc[p[1]]) /\ uc[p[1]][p[2]].id = convo_id}

\* thread t takes this step
Acts(t) == <<pc[t], gw[t], turn[t], out[t], obs[t], turnsLeft[t]>>' #
           <<pc[t], gw[t], turn[t], out[t], obs[t], turnsLeft[t]>>

\* the step leaves the conversations of every username but `username` as they are
OthersUnchanged(username) ==
    \A other \in Usernames \ {username} :
        ConvosOf(user_conversations', other) = ConvosOf(user_conversations, other)

\* C24: each conversation is owned by exactly one username.  Every id the store
\* issued stands in exactly one user's list, once; a step of a chat turn under a
\* username, and an append called with a username, change no conversation of
\* another username, whatever id they carry; and the history a turn reads for an
\* id its username does not own is empty, so its request carries the system
\* message alone.
C24_OwnedByOneUsername ==
    /\ [](\A c \in IssuedIds : Cardinality(Owners(user_conversations, c)) = 1)
    /\ [](\A u \in Usernames : \A c \in IssuedIds \cup UnknownIds :
            FindConvo(ConvosOf(user_conversations, u), c) = 0 =>
                HistoryOf(user_conversations, u, c) = <<>>)
    /\ [](\A t \in Threads :
            (FindConvo(ConvosOf(user_conversations, turn[t].username), turn[t].convo_id) = 0) =>
                \A i \in 1..Len(obs[t].requests) : Len(obs[t].requests[i]) = 1)
    /\ [][\A t \in Threads : Acts(t) => OthersUnchanged(turn[t].username')]_vars
    /\ [][log' # log => OthersUnchanged(log'[Len(log')][1])]_vars

\* a finished turn under u2 that carried the id of u1's conversation: both appends
\* were called, the request was sent, and u1's conversation is as it was
C24_Witness ==
    /\ pc[1] = "done"
    /\ turn[1].username = "u2"
    /\ turn[1].convo_id = 1
    /\ Len(obs[1].appendCalls) = 2
    /\ obs[1].gwCalls = 1
    /\ Len(out[1]) > 0 /\ out[1][Len(out[1])].type = "end"
    /\ Owners(user_conversations, 1) = {<<"u1", 1>>}
    /\ ConvosOf(user_conversations, "u1") = PriorMap["u1"]
    /\ ConvosOf(user_conversations, "u2") = <<>>

====
